---- MODULE Spec2Model ----
(***************************************************************************)
(* State-machine model of the LandingPage chat component                   *)
(* (src/src/pages/landing.jsx).                                            *)
(*                                                                         *)
(* JavaScript strings are TLA+ strings; a character is a string of length  *)
(* one (Ch).  The component's React state is the model's state; a handler  *)
(* runs to its first await in one step, and every continuation after an    *)
(* await (the microtask that runs when the awaited promise settles) is     *)
(* one step as well, because nothing can interleave with a running         *)
(* JavaScript job.  React commits the state updates of a discrete event    *)
(* before the next event is dispatched, so a handler reads the committed   *)
(* state.                                                                  *)
(***************************************************************************)
EXTENDS Integers, Sequences, FiniteSets, TLC

VARIABLES
    hostname,        \* window.location.hostname of the page
    mounted,         \* whether the mount effect (line 178) has run
    now,             \* the wall clock, in ms (Date.now())
    messages,        \* useState line 33
    inputValue,      \* useState line 42
    isLoading,       \* useState line 43
    availableTools,  \* useState line 44
    toolsLoading,    \* useState line 45
    toolsError,      \* useState line 46
    pc,              \* where the one running handleSubmit is suspended
    sendSeq,         \* number of handleSubmit calls that passed the guard
    timers,          \* armed setTimeout timers of handleSubmit (line 215)
    aborted,         \* AbortControllers of handleSubmit that were aborted
    toolFetches,     \* the fetchAvailableTools calls, by call number
    requests,        \* every fetch() call issued so far, in order
    settled,         \* how the request of each send ended, by send
    events           \* number of sends, refreshes and clock advances so far

vars == <<hostname, mounted, now, messages, inputValue, isLoading,
          availableTools, toolsLoading, toolsError, pc, sendSeq, timers,
          aborted, toolFetches, requests, settled, events>>

chatVars == <<messages, inputValue, isLoading, pc, sendSeq, timers, aborted,
             settled>>
toolVars == <<availableTools, toolsLoading, toolsError, toolFetches>>
pageVars == <<hostname, mounted>>

----------------------------------------------------------------------------
(* Bounds of the model *)

\* accepted sends, presses of Refresh Tools and clock advances per behaviour
\* (typing, ignored submits and the continuations are not counted)
MaxEvents == 3
\* Date.now() when the page is constructed
StartTime == 1000

----------------------------------------------------------------------------
(* JavaScript string primitives *)

Ch(s, i) == SubSeq(s, i, i)

\* the characters a..b of s that exist (String.prototype.substring)
Slice(s, a, b) ==
    LET lo == IF a < 1 THEN 1 ELSE a
        hi == IF b > Len(s) THEN Len(s) ELSE b
    IN  IF lo > hi THEN "" ELSE SubSeq(s, lo, hi)

\* String.prototype.includes
Includes(s, sub) ==
    \E i \in 1..(Len(s) - Len(sub) + 1) : SubSeq(s, i, i + Len(sub) - 1) = sub

\* String.prototype.startsWith / endsWith
StartsWith(s, sub) == Len(sub) <= Len(s) /\ SubSeq(s, 1, Len(sub)) = sub
EndsWith(s, sub) ==
    Len(sub) <= Len(s) /\ SubSeq(s, Len(s) - Len(sub) + 1, Len(s)) = sub

\* The white space String.prototype.trim strips (the ASCII part of it)
WhiteSpace == {" ", "\t", "\n", "\r", "\f"}

RECURSIVE TrimStart(_)
TrimStart(s) ==
    IF Len(s) > 0 /\ Ch(s, 1) \in WhiteSpace THEN TrimStart(Tail(s)) ELSE s

RECURSIVE TrimEnd(_)
TrimEnd(s) ==
    IF Len(s) > 0 /\ Ch(s, Len(s)) \in WhiteSpace
    THEN TrimEnd(SubSeq(s, 1, Len(s) - 1))
    ELSE s

\* String.prototype.trim
Trim(s) == TrimEnd(TrimStart(s))

\* the least element of a non-empty set of integers
Least(S) == CHOOSE a \in S : \A b \in S : a <= b
\* the greatest element of a non-empty set of integers
Greatest(S) == CHOOSE a \in S : \A b \in S : b <= a

\* String.prototype.indexOf, 1-based: 0 when sub does not occur in s
IndexOf(s, sub) ==
    LET hits == {i \in 1..(Len(s) - Len(sub) + 1) :
                   SubSeq(s, i, i + Len(sub) - 1) = sub}
    IN  IF hits = {} THEN 0 ELSE Least(hits)

\* Array.prototype.join
RECURSIVE Join(_, _)
Join(parts, sep) ==
    IF Len(parts) = 0 THEN ""
    ELSE IF Len(parts) = 1 THEN parts[1]
    ELSE parts[1] \o sep \o Join(Tail(parts), sep)

\* prefix order on sequences
IsPrefix(s, t) == Len(s) <= Len(t) /\ SubSeq(t, 1, Len(s)) = s

----------------------------------------------------------------------------
(* Character classes of the regular expressions of formatAIResponse *)

UpperCase == {"A", "B", "C", "D", "E", "F", "G", "H", "I", "J", "K", "L", "M",
              "N", "O", "P", "Q", "R", "S", "T", "U", "V", "W", "X", "Y", "Z"}
LowerCase == {"a", "b", "c", "d", "e", "f", "g", "h", "i", "j", "k", "l", "m",
              "n", "o", "p", "q", "r", "s", "t", "u", "v", "w", "x", "y", "z"}
Digit == {"0", "1", "2", "3", "4", "5", "6", "7", "8", "9"}
\* \w
WordChar == UpperCase \cup LowerCase \cup Digit \cup {"_"}
\* [.!?]
SentenceEnd == {".", "!", "?"}

UpperLetters == "ABCDEFGHIJKLMNOPQRSTUVWXYZ"
LowerLetters == "abcdefghijklmnopqrstuvwxyz"

\* case folding of the "i" flag, on ASCII
FoldCh(c) ==
    IF c \in UpperCase
    THEN LET k == IndexOf(UpperLetters, c) IN Ch(LowerLetters, k)
    ELSE c

\* equality of two strings under the "i" flag
EqFold(a, b) ==
    Len(a) = Len(b) /\ \A k \in 1..Len(a) : FoldCh(Ch(a, k)) = FoldCh(Ch(b, k))

\* the first position at or after i that holds no character of class C
\* (Len(s) + 1 when the run reaches the end)
RunEnd(s, i, C) ==
    CHOOSE j \in i..(Len(s) + 1) :
        /\ j = Len(s) + 1 \/ Ch(s, j) \notin C
        /\ \A k \in i..(j - 1) : Ch(s, k) \in C

\* length of the longest run of characters of class C that starts at i
RunLen(s, i, C) == IF i > Len(s) THEN 0 ELSE RunEnd(s, i, C) - i

\* the first position at or after i that holds the character c
\* (Len(s) + 1 when there is none)
NextCh(s, i, c) ==
    LET at == {j \in i..Len(s) : Ch(s, j) = c}
    IN  IF at = {} THEN Len(s) + 1 ELSE Least(at)

\* The literal the source holds as its bullet marker (lines 71, 110, 275):
\* the three code units U+00E2 U+20AC U+00A2, none of them a word character,
\* white space or punctuation of the regular expressions; written here with
\* three ASCII characters of the same kind.
BulletMarker == "^~@"
\* The five code units before "**Connection Error**" (line 271); the third
\* is U+00A0, which is white space.
WarningSign == "^#\t|="

----------------------------------------------------------------------------
(* formatAIResponse, lines 68-130 *)

\* content.split(/[.!?]+/): the pieces between the maximal runs of
\* sentence-ending characters, empty pieces kept
RECURSIVE SplitFrom(_, _)
SplitFrom(s, from) ==
    LET ends == {j \in from..Len(s) : Ch(s, j) \in SentenceEnd}
    IN  IF ends = {}
        THEN <<SubSeq(s, from, Len(s))>>
        ELSE LET e == Least(ends)
                 r == RunLen(s, e, SentenceEnd)
             IN  <<SubSeq(s, from, e - 1)>> \o SplitFrom(s, e + r)

SplitSentences(s) == SplitFrom(s, 1)

NonBlank(s) == Len(Trim(s)) > 0

\* A near miss of lines 79-81, which C19 must tell from them: the empty
\* pieces are counted as sentences.
SentencesWithEmptyPieces(content) == SplitSentences(content)

\* lines 79-81
Sentences(content) == SelectSeq(SplitSentences(content), NonBlank)

\* \w+ followed by the literal suffix, at i: the match length or 0.
\* The suffix starts with ".", which \w+ cannot take, so \w+ is the whole run.
DotSuffixAt(s, i, suffix) ==
    LET r == RunLen(s, i, WordChar)
    IN  IF r >= 1 /\ Slice(s, i + r, i + r + Len(suffix) - 1) = suffix
        THEN r + Len(suffix)
        ELSE 0

\* \w+ followed by a suffix of word characters, at i: \w+ is greedy and
\* backtracks, so the last occurrence of the suffix inside the run wins.
WordSuffixAt(s, i, suffix) ==
    LET r == RunLen(s, i, WordChar)
        ks == {k \in 1..(r - Len(suffix)) :
                 SubSeq(s, i + k, i + k + Len(suffix) - 1) = suffix}
    IN  IF ks = {} THEN 0
        ELSE Greatest(ks) + Len(suffix)

\* [A-Z][a-z]+[A-Z][a-z]+ at i
CamelAt(s, i) ==
    IF i <= Len(s) /\ Ch(s, i) \in UpperCase
    THEN LET l1 == RunLen(s, i + 1, LowerCase)
             u2 == i + 1 + l1
             l2 == RunLen(s, u2 + 1, LowerCase)
         IN  IF l1 >= 1 /\ u2 <= Len(s) /\ Ch(s, u2) \in UpperCase /\ l2 >= 1
             THEN 2 + l1 + l2
             ELSE 0
    ELSE 0

\* the alternation of line 96 at i, alternatives tried in order
WebsiteAt(s, i) ==
    LET alts == << DotSuffixAt(s, i, ".com"), DotSuffixAt(s, i, ".org"),
                   DotSuffixAt(s, i, ".ai"), WordSuffixAt(s, i, "Face"),
                   WordSuffixAt(s, i, "Net"), CamelAt(s, i) >>
        hit == {a \in 1..Len(alts) : alts[a] > 0}
    IN  IF hit = {} THEN 0
        ELSE alts[Least(hit)]

\* content.match(/.../g), lines 95-97: every match, left to right, the
\* search resuming after each match (the empty sequence stands for null)
RECURSIVE WebsiteMatchesFrom(_, _, _)
WebsiteMatchesFrom(s, starts, from) ==
    LET left == {i \in starts : i >= from}
    IN  IF left = {} THEN <<>>
        ELSE LET i == Least(left)
                 n == WebsiteAt(s, i)
             IN  <<SubSeq(s, i, i + n - 1)>>
                 \o WebsiteMatchesFrom(s, starts, i + n)

WebsiteMatches(content) ==
    LET starts == {i \in 1..Len(content) : WebsiteAt(content, i) > 0}
    IN  WebsiteMatchesFrom(content, starts, 1)

\* content.match(siteRegex)[1], lines 104-108: the pattern
\* ([^.]*SITE[^.]*\.?) with flag i, first match.  "" stands for no match.
SiteContext(content, site) ==
    LET n == Len(site)
        occ == {q \in 1..(Len(content) - n + 1) :
                  EqFold(SubSeq(content, q, q + n - 1), site)}
    IN  IF occ = {} THEN ""
        ELSE
        LET q0 == Least(occ)
            dotsBefore == {j \in 1..(q0 - 1) : Ch(content, j) = "."}
            \* the leftmost start from which a "."-free prefix reaches SITE
            p == IF dotsBefore = {} THEN 1 ELSE Greatest(dotsBefore) + 1
            \* the first [^.]* is greedy: it runs to the next "." and gives
            \* back until SITE matches, so the last occurrence it reaches wins
            stop == NextCh(content, p, ".")
            q == Greatest({a \in occ : p <= a /\ a <= stop})
            \* the second [^.]* and the optional "."
            dot == NextCh(content, q + n, ".")
            e == IF dot <= Len(content) THEN dot ELSE Len(content)
        IN  SubSeq(content, p, e)

\* String.prototype.replace(pattern, "") with a string pattern: the first
\* occurrence is removed
RemoveFirst(s, sub) ==
    LET k == IndexOf(s, sub)
    IN  IF k = 0 THEN s
        ELSE SubSeq(s, 1, k - 1) \o SubSeq(s, k + Len(sub), Len(s))

\* the forEach of lines 102-114
RECURSIVE SiteBullets(_, _)
SiteBullets(content, sites) ==
    IF Len(sites) = 0 THEN ""
    ELSE LET site == sites[1]
             ctx == SiteContext(content, site)
             line == IF ctx = "" THEN ""
                     ELSE BulletMarker \o " **" \o site \o "** - "
                          \o Trim(RemoveFirst(ctx, site)) \o "\n"
         IN  line \o SiteBullets(content, Tail(sites))

ListIntro == "I found several great options:\n\n"
ListOutro ==
    "\nWould you like me to provide more details about any of these options?"

\* program constants of line 84 and line 98
LongContentChars == 300
ManySentences == 3
ManySites == 2

\* A near miss of lines 70-76, which C18 must tell from them: the test for
\* the bullet marker is missing.
formatAIResponseBlindToBullets(content) ==
    IF \/ Includes(content, "**")
       \/ Includes(content, "\n\n")
    THEN content
    ELSE
    LET sentences == Sentences(content)
    IN  IF Len(sentences) > ManySentences /\ Len(content) > LongContentChars
        THEN LET websiteMatches == WebsiteMatches(content)
             IN  IF Len(websiteMatches) > ManySites
                 THEN ListIntro \o SiteBullets(content, websiteMatches)
                      \o ListOutro
                 ELSE LET midPoint == Len(sentences) \div 2
                          firstHalf ==
                              Join(SubSeq(sentences, 1, midPoint), ". ") \o "."
                          secondHalf ==
                              Join(SubSeq(sentences, midPoint + 1,
                                          Len(sentences)), ". ") \o "."
                      IN  firstHalf \o "\n\n" \o secondHalf
        ELSE content

formatAIResponse(content) ==
    IF \/ Includes(content, BulletMarker)
       \/ Includes(content, "**")
       \/ Includes(content, "\n\n")
    THEN content
    ELSE
    LET sentences == Sentences(content)
    IN  IF Len(sentences) > ManySentences /\ Len(content) > LongContentChars
        THEN LET websiteMatches == WebsiteMatches(content)
             IN  IF Len(websiteMatches) > ManySites
                 THEN ListIntro \o SiteBullets(content, websiteMatches)
                      \o ListOutro
                 ELSE LET midPoint == Len(sentences) \div 2
                          firstHalf ==
                              Join(SubSeq(sentences, 1, midPoint), ". ") \o "."
                          secondHalf ==
                              Join(SubSeq(sentences, midPoint + 1,
                                          Len(sentences)), ". ") \o "."
                      IN  firstHalf \o "\n\n" \o secondHalf
        ELSE content

----------------------------------------------------------------------------
(* MessageContent, lines 313-367: the blocks a bot message is displayed as *)

\* the first position at or after from where sub occurs in s, 0 when there
\* is none
IndexFrom(s, sub, from) ==
    LET hits == {i \in from..(Len(s) - Len(sub) + 1) :
                   SubSeq(s, i, i + Len(sub) - 1) = sub}
    IN  IF hits = {} THEN 0 ELSE Least(hits)

\* content.split("\n"), line 315
RECURSIVE SplitLinesFrom(_, _)
SplitLinesFrom(s, from) ==
    LET k == IndexFrom(s, "\n", from)
    IN  IF k = 0
        THEN <<SubSeq(s, from, Len(s))>>
        ELSE <<SubSeq(s, from, k - 1)>> \o SplitLinesFrom(s, k + 1)

SplitLines(s) == SplitLinesFrom(s, 1)

\* the characters "." of a regular expression does not match
LineTerminators == {"\n", "\r"}

\* s.replace(/\*\*(.*?)\*\*/g, open + "$1" + close), from position from on:
\* a match starts at a marker, takes the fewest characters up to the next
\* marker, and the search resumes after the match
RECURSIVE ReplaceBoldFrom(_, _, _, _)
ReplaceBoldFrom(s, from, open, close) ==
    LET i == IndexFrom(s, "**", from)
        j == IF i = 0 THEN 0 ELSE IndexFrom(s, "**", i + 2)
    IN  IF i = 0 \/ j = 0
        THEN SubSeq(s, from, Len(s))
        ELSE IF \E p \in (i + 2)..(j - 1) : Ch(s, p) \in LineTerminators
        THEN SubSeq(s, from, i) \o ReplaceBoldFrom(s, i + 1, open, close)
        ELSE SubSeq(s, from, i - 1) \o open \o SubSeq(s, i + 2, j - 1) \o close
             \o ReplaceBoldFrom(s, j + 2, open, close)

ReplaceBold(s, open, close) == ReplaceBoldFrom(s, 1, open, close)

\* the element a line is mapped to, lines 319-363: its kind and its inner
\* HTML
LineBlock(line) ==
    IF Trim(line) = ""
    THEN [kind |-> "spacer", html |-> ""]
    ELSE IF StartsWith(Trim(line), BulletMarker)
    THEN [kind |-> "bullet",
          html |-> ReplaceBold(Trim(RemoveFirst(line, BulletMarker)),
                               "<strong>", "</strong>")]
    ELSE IF Includes(line, "**") /\ EndsWith(Trim(line), "**")
    THEN [kind |-> "heading", html |-> ReplaceBold(line, "", "")]
    ELSE [kind |-> "paragraph",
          html |-> ReplaceBold(line, "<strong>", "</strong>")]

\* lines 313-367
MessageContent(content) ==
    LET lines == SplitLines(content)
    IN  [i \in DOMAIN lines |-> LineBlock(lines[i])]

----------------------------------------------------------------------------
(* getBackendURL, lines 53-65, and the status label, line 471 *)

LocalURL == "http://localhost:5000"
ProductionURL == "https://simple-agent-backend.onrender.com"

getBackendURL(host) ==
    IF host = "localhost" \/ host = "127.0.0.1" THEN LocalURL ELSE ProductionURL

BACKEND_URL == getBackendURL(hostname)

StatusLabel(host) == IF host = "localhost" THEN "Local" ELSE "Online"

----------------------------------------------------------------------------
(* What the environment can supply *)

\* the hosts the page can be served from; the last is the one of the tests
Hostnames == {"localhost", "127.0.0.1", "simple-agent-frontend.onrender.com"}

\* what the user can have typed into the input box
Inputs == {"  ", "Hello AI!", " scrape it\n"}

\* status codes of a /chat response
ChatStatuses == {200, 400, 404, 500, 502, 503}

\* an Error object: its name and its message
Err(name, message) == [name |-> name, message |-> message]

\* fetch() rejections other than an abort: Chrome, Firefox and Safari word
\* a failed connection differently
FailedToFetch == Err("TypeError", "Failed to fetch")
NetworkErrors == { FailedToFetch,
                   Err("TypeError",
                       "NetworkError when attempting to fetch resource."),
                   Err("TypeError", "Load failed") }

\* what controller.abort() makes the pending fetch reject with
AbortError == Err("AbortError", "signal is aborted without reason")

\* response.json() on a body that is not JSON
JsonSyntaxError == Err("SyntaxError", "Unexpected token < in JSON at position 0")

\* a reply of more than 300 characters and more than 3 sentences that names
\* more than 2 sites
LongListReply ==
    "You can find models on HuggingFace, which hosts many of them for free. "
    \o "Another place to look is github.com where the code is kept! "
    \o "The papers are on arxiv.org and are free to read. "
    \o "For images there is ImageNet, an older set that is still used a lot. "
    \o "Is that enough to get you started? "
    \o "If not, ask again and I will search the web for more of them."

\* a reply of more than 300 characters and more than 3 sentences that names
\* no site
LongPlainReply ==
    "The page you asked about has four parts. "
    \o "The first part explains what the tool does and who it is for. "
    \o "The second part lists the prices, which start at nine dollars! "
    \o "The third part is a list of questions that people ask very often. "
    \o "The last part tells you how to reach the people who made it. "
    \o "Would you like me to look at one of the parts more closely?"

\* a reply of more than 300 characters that names more than 2 sites and has
\* 3 sentences, between a run of dots at its start and a dot at its end
LongThreeSentenceReply ==
    "...I compared HuggingFace with ImageNet and ResNet and DeepMind for you, "
    \o "and all four of them are places where people share models and data "
    \o "sets, some of them for free and some of them for a price that depends "
    \o "on how much you use. It is worth reading their terms before you sign "
    \o "up! After that you can pick the one that fits what you want to build "
    \o "and the money you have."

\* a reply of 64 characters with 7 sentences that names 4 sites
ShortListReply ==
    "Try HuggingFace. Or github.com! Or arxiv.org? Or ImageNet. Done."

\* reply texts that take formatAIResponse through each of its tests: texts
\* it rewrites, the same texts with a paragraph break, a bold marker or a
\* bullet marker, or with half a marker, its own output, texts around 300
\* characters, and texts of few sentences
FormatInputs == {
    LongListReply,
    LongPlainReply,
    "Here is what I found.\n\n" \o LongListReply,
    LongListReply \o " **Done**",
    BulletMarker \o " " \o LongListReply,
    LongPlainReply \o " " \o BulletMarker,
    "Here is what I found.\n" \o LongListReply,
    LongListReply \o " *Done*",
    formatAIResponse(LongListReply),
    formatAIResponse(LongPlainReply),
    ShortListReply,
    SubSeq(LongListReply, 1, 299),
    SubSeq(LongListReply, 1, 301),
    LongThreeSentenceReply }

\* a JSON object, and the JSON value null
Obj(fields) == [kind |-> "object", fields |-> fields]
Null == [kind |-> "null"]
NoFields == [f \in {} |-> ""]

Call(name) == [name |-> name]

\* the body of the /chat mock of the tests (part_000 lines 57-66)
MockChatBody ==
    Obj([ai_message |-> "This is a test AI response.",
         tool_calls |-> <<Call("firecrawl_search")>>])

\* bodies of a 2xx /chat response that carry the texts above
FormatBodies == {[kind |-> "object", fields |-> [ai_message |-> text]] :
                    text \in FormatInputs}

\* reply texts whose lines are of every kind MessageContent tells apart; each
\* holds a paragraph break or a bold marker, so formatAIResponse leaves it as
\* it came
RenderInputs == {
    "**Results**\n\n" \o BulletMarker \o " **github.com** - code host\n  "
        \o BulletMarker \o " plain item\nSee **docs** for more.\n",
    "Totals **A** and **B**",
    BulletMarker \o " **Heading-like bullet**",
    "   \n\t\nafter the blank lines",
    "Note**",
    "Step one ** \nStep two",
    "a ** b **c**",
    "**",
    "***bold italic***" }

RenderBodies == {[kind |-> "object", fields |-> [ai_message |-> text]] :
                    text \in RenderInputs}

\* bodies of a 2xx /chat response
ChatBodies == {
    MockChatBody,
    Obj([ai_message |-> "Done: **3 pages** read.",
         tool_calls |-> <<Call("firecrawl_scrape"), Call("firecrawl_search"),
                          Call("firecrawl_scrape")>>]),
    Obj([ai_message |-> LongListReply, tool_calls |-> <<>>]),
    Obj([ai_message |-> LongPlainReply]),
    Obj([ai_message |-> ""]),
    Obj(NoFields),
    Null }

----------------------------------------------------------------------------
(* handleSubmit, lines 193-301 *)

\* setTimeout(..., 180000), line 215
ChatTimeoutMs == 180000

\* the messages state as first rendered, lines 33-41
WelcomeText ==
    "Hello! I'm your AI agent powered by Gemini LLM and Firecrawl tools. "
    \o "I can help you search the web, scrape content, extract data, and "
    \o "provide intelligent responses. What would you like to know?"

InitialMessages(t) ==
    << [id |-> 1, type |-> "bot", content |-> WelcomeText, timestamp |-> t] >>

\* Two near misses of the guard of line 194, which C2 and C3 must tell from
\* it: one that does not trim, one that does not look at isLoading.
EarlyReturnUntrimmed == inputValue = "" \/ isLoading
EarlyReturnWhileIdleOnly == Trim(inputValue) = ""

\* A near miss of the guard of line 194, which C15 must tell from it: one
\* loading state for the page, the tools fetch included.
EarlyReturnWhileAnyLoading == Trim(inputValue) = "" \/ isLoading \/ toolsLoading

\* line 194: the condition of the early return
EarlyReturn == Trim(inputValue) = "" \/ isLoading

\* lines 196-201
UserMessage(t) ==
    [id |-> t, type |-> "user", content |-> inputValue, timestamp |-> t]

\* A near miss of lines 209-212, which C9 must tell from them: the messages
\* as they are, ids and timestamps included.
WholeMessages(log) == log

\* lines 209-212
HistoryToSend(log) ==
    [i \in 1..Len(log) |-> [type |-> log[i].type, content |-> log[i].content]]

\* the argument of JSON.stringify, lines 222-225
ChatBody(userMessage, log) ==
    [message |-> userMessage.content, history |-> HistoryToSend(log)]

\* response.ok
Ok(status) == status >= 200 /\ status <= 299

\* A near miss of lines 231-244, which C6 must tell from them: the test for
\* a server error made before the test for 503.
HttpErrorServerFirst(status) ==
    IF status >= 500
    THEN Err("Error", "Server error. Please try again later.")
    ELSE IF status = 503
    THEN Err("Error",
             "Service is starting up. Please wait a moment and try again.")
    ELSE IF status = 404
    THEN Err("Error", "Service not found. Please check the backend URL.")
    ELSE Err("Error", "HTTP error! status: " \o ToString(status))

\* lines 231-244: the Error thrown for a response that is not ok
HttpError(status) ==
    IF status = 503
    THEN Err("Error",
             "Service is starting up. Please wait a moment and try again.")
    ELSE IF status >= 500
    THEN Err("Error", "Server error. Please try again later.")
    ELSE IF status = 404
    THEN Err("Error", "Service not found. Please check the backend URL.")
    ELSE Err("Error", "HTTP error! status: " \o ToString(status))

ConnectionErrorHeader == WarningSign \o " **Connection Error**\n\n"

TimedOutText ==
    "Request timed out. The server might be busy.\n"
    \o BulletMarker \o " Try a simpler question\n"
    \o BulletMarker \o " Wait a moment and try again\n"
    \o BulletMarker \o " Check your internet connection"

StartingUpText ==
    "The AI service is starting up.\n"
    \o BulletMarker \o " Please wait 30-60 seconds\n"
    \o BulletMarker \o " Try your request again\n"
    \o BulletMarker \o " The service should be ready shortly"

NetworkIssueText ==
    "Network connection issue.\n"
    \o BulletMarker \o " Check your internet connection\n"
    \o BulletMarker \o " The server might be temporarily unavailable\n"
    \o BulletMarker \o " Try again in a few moments"

GenericText(message) ==
    "Sorry, I couldn't process your request:\n"
    \o BulletMarker \o " " \o message \o "\n"
    \o BulletMarker \o " Please try again in a moment"

\* A near miss of lines 271-287, which C7 must tell from them: the error
\* classified by its message alone, never by its name.
ErrorContentByMessage(error) ==
    ConnectionErrorHeader \o
    ( IF Includes(error.message, "Service is starting up")
      THEN StartingUpText
      ELSE IF \/ Includes(error.message, "Failed to fetch")
              \/ Includes(error.message, "NetworkError")
      THEN NetworkIssueText
      ELSE GenericText(error.message) )

\* lines 271-287: the content of the bot message of the catch block
ErrorContent(error) ==
    ConnectionErrorHeader \o
    ( IF error.name = "AbortError" THEN TimedOutText
      ELSE IF Includes(error.message, "Service is starting up")
      THEN StartingUpText
      ELSE IF \/ Includes(error.message, "Failed to fetch")
              \/ Includes(error.message, "NetworkError")
      THEN NetworkIssueText
      ELSE GenericText(error.message) )

\* lines 289-297: the message the catch block appends
ErrorMessage(error, t) ==
    [id |-> t + 1, type |-> "bot", content |-> ErrorContent(error),
     timestamp |-> t]

NoTextReply == "(No direct textual response)"

\* line 248: data.ai_message || "(No direct textual response)"
BotMessageContent(fields) ==
    IF "ai_message" \in DOMAIN fields /\ fields.ai_message # ""
    THEN fields.ai_message
    ELSE NoTextReply

\* lines 249-254
ToolsUsedByBot(fields) ==
    IF "tool_calls" \in DOMAIN fields /\ Len(fields.tool_calls) > 0
    THEN [i \in 1..Len(fields.tool_calls) |-> fields.tool_calls[i].name]
    ELSE <<>>

\* formatAIResponse on every reply text the bodies above can give (TLC
\* evaluates the table once)
ReplyTexts ==
    {BotMessageContent(b.fields) :
        b \in {d \in ChatBodies \cup FormatBodies \cup RenderBodies :
                 d.kind = "object"}}
Formatted == [text \in ReplyTexts |-> formatAIResponse(text)]

\* A near miss of lines 257-265, which C8 must tell from them: the reply
\* text shown as it came.
BotResponseRaw(fields, t) ==
    [id |-> t + 1, type |-> "bot", content |-> BotMessageContent(fields),
     timestamp |-> t, toolsUsed |-> ToolsUsedByBot(fields)]

\* lines 257-265
BotResponse(fields, t) ==
    [id |-> t + 1, type |-> "bot",
     content |-> Formatted[BotMessageContent(fields)],
     timestamp |-> t, toolsUsed |-> ToolsUsedByBot(fields)]

\* reading a property of null, line 248
NullReadError ==
    Err("TypeError", "Cannot read properties of null (reading 'ai_message')")

\* the synchronous part of handleSubmit, lines 193-227: up to the await of
\* fetch
handleSubmit ==
    /\ mounted
    /\ IF EarlyReturn
       THEN UNCHANGED <<chatVars, requests, events>>
       ELSE /\ events < MaxEvents
            /\ events' = events + 1
            /\ LET userMessage == UserMessage(now)
               IN  /\ messages' = Append(messages, userMessage)
                   /\ requests' = Append(requests,
                          [url |-> BACKEND_URL \o "/chat", method |-> "POST",
                           body |-> ChatBody(userMessage, messages)])
            /\ inputValue' = ""
            /\ isLoading' = TRUE
            /\ sendSeq' = sendSeq + 1
            /\ timers' = timers \cup
                   {[controller |-> sendSeq + 1, deadline |-> now + ChatTimeoutMs]}
            /\ pc' = "fetch"
            /\ UNCHANGED <<aborted, settled>>
    /\ UNCHANGED <<pageVars, now, toolVars>>

\* onChange of the input box, line 579
onChange(value) ==
    /\ mounted
    /\ inputValue' = value
    /\ UNCHANGED <<messages, isLoading, pc, sendSeq, timers, aborted, settled,
                   requests, pageVars, now, events, toolVars>>

\* Three near misses of lines 268-300: a catch block that appends nothing
\* (C1 must tell it from Catch), a send without the finally block (C5), and
\* a catch block that puts the error in the place of the last message (C10).
CatchSilently(error) ==
    /\ messages' = messages
    /\ isLoading' = FALSE
    /\ pc' = "idle"

CatchWithoutFinally(error) ==
    /\ messages' = Append(messages, ErrorMessage(error, now))
    /\ isLoading' = isLoading
    /\ pc' = "idle"

CatchReplacingLast(error) ==
    /\ messages' = [messages EXCEPT ![Len(messages)] = ErrorMessage(error, now)]
    /\ isLoading' = FALSE
    /\ pc' = "idle"

\* A near miss of lines 268-300, which C22 must tell from them: the failure
\* reported by two bot messages.
CatchReportingTwice(error) ==
    /\ messages' = Append(Append(messages, ErrorMessage(error, now)),
                          ErrorMessage(error, now + 1))
    /\ isLoading' = FALSE
    /\ pc' = "idle"

\* the catch block and the finally block, lines 268-300
Catch(error) ==
    /\ messages' = Append(messages, ErrorMessage(error, now))
    /\ isLoading' = FALSE
    /\ pc' = "idle"

\* clearTimeout(timeoutId), line 229
ClearTimeout(id) == {t \in timers : t.controller # id}

\* fetch resolved with a response: lines 229-246, up to the await of
\* response.json()
ChatResponse(status) ==
    /\ pc = "fetch"
    /\ sendSeq \notin aborted
    /\ timers' = ClearTimeout(sendSeq)
    /\ IF Ok(status)
       THEN pc' = "json" /\ UNCHANGED <<messages, isLoading, settled>>
       ELSE /\ Catch(HttpError(status))
            /\ settled' = Append(settled, [by |-> "status", status |-> status])
    /\ UNCHANGED <<inputValue, sendSeq, aborted, requests,
                   pageVars, now, events, toolVars>>

\* fetch rejected because the request failed: control goes from line 217 to
\* the catch block, and line 229 is not reached
ChatFetchRejected(error) ==
    /\ pc = "fetch"
    /\ Catch(error)
    /\ settled' = Append(settled, [by |-> "fetch error", error |-> error])
    /\ UNCHANGED <<inputValue, sendSeq, timers, aborted, requests,
                   pageVars, now, events, toolVars>>

\* response.json() resolved: lines 246-267, then finally
ChatJson(data) ==
    /\ pc = "json"
    /\ IF data.kind = "null"
       THEN Catch(NullReadError)
       ELSE /\ messages' = Append(messages, BotResponse(data.fields, now))
            /\ isLoading' = FALSE
            /\ pc' = "idle"
    /\ settled' = Append(settled, [by |-> "body", data |-> data])
    /\ UNCHANGED <<inputValue, sendSeq, timers, aborted, requests,
                   pageVars, now, events, toolVars>>

\* response.json() rejected: the body is not JSON, or the connection broke
\* while the body was read
ChatJsonRejected(error) ==
    /\ pc = "json"
    /\ Catch(error)
    /\ settled' = Append(settled, [by |-> "body error", error |-> error])
    /\ UNCHANGED <<inputValue, sendSeq, timers, aborted, requests,
                   pageVars, now, events, toolVars>>

\* A near miss of lines 214-215, which C23 must tell from them: one abort
\* controller for the page, so that a timer aborts the request in flight,
\* whichever send made it.
ChatTimerFiresOnSharedController(timer) ==
    /\ timer \in timers
    /\ now >= timer.deadline
    /\ timers' = timers \ {timer}
    /\ aborted' = aborted \cup {timer.controller}
    /\ IF pc \in {"fetch", "json"}
       THEN Catch(AbortError) /\ settled' = Append(settled, [by |-> "abort"])
       ELSE UNCHANGED <<messages, isLoading, pc, settled>>
    /\ UNCHANGED <<inputValue, sendSeq, requests, pageVars, now, events, toolVars>>

\* the callback of setTimeout, line 215: controller.abort().  It aborts the
\* controller it closed over; the fetch of that controller, when it is still
\* pending or its body is still being read, rejects with an AbortError.
ChatTimerFires(timer) ==
    /\ timer \in timers
    /\ now >= timer.deadline
    /\ timers' = timers \ {timer}
    /\ aborted' = aborted \cup {timer.controller}
    /\ IF timer.controller = sendSeq /\ pc \in {"fetch", "json"}
       THEN Catch(AbortError) /\ settled' = Append(settled, [by |-> "abort"])
       ELSE UNCHANGED <<messages, isLoading, pc, settled>>
    /\ UNCHANGED <<inputValue, sendSeq, requests, pageVars, now, events, toolVars>>

----------------------------------------------------------------------------
(* fetchAvailableTools, lines 133-175, and the mount effect, lines 178-180 *)

\* AbortSignal.timeout(10000), line 144
ToolsTimeoutMs == 10000

\* lines 162-171
FallbackTools ==
    << "firecrawl_scrape", "firecrawl_map", "firecrawl_crawl",
       "firecrawl_check_crawl_status", "firecrawl_search", "firecrawl_extract",
       "firecrawl_deep_research", "firecrawl_generate_llmstxt" >>

\* a JSON array and a JSON string, as the value of a field
Arr(items) == [kind |-> "array", items |-> items]
Str(value) == [kind |-> "string", value |-> value]

\* status codes of a /tools response
ToolsStatuses == {200, 500}

\* the body of the /tools mock of the tests (part_000 lines 48-56)
MockToolsBody ==
    Obj([tools |-> Arr(<<"firecrawl_scrape", "firecrawl_search",
                         "firecrawl_extract">>)])

\* bodies of a 2xx /tools response
ToolsBodies == {
    MockToolsBody,
    Obj([tools |-> Arr(<<"firecrawl_map">>)]),
    Obj([tools |-> Str("firecrawl_map")]),
    Obj(NoFields) }

\* what an AbortSignal.timeout signal makes the fetch reject with
TimeoutError == Err("TimeoutError", "The operation timed out.")

\* the calls of fetchAvailableTools that have not finished
Pending == {k \in DOMAIN toolFetches : toolFetches[k].pc # "done"}

Finish(k) == [toolFetches EXCEPT ![k].pc = "done"]

\* A near miss of lines 134-145, which C16 must tell from them: the request
\* is issued a second time by the same call.
fetchAvailableToolsWithSecondRequest ==
    /\ toolsLoading' = TRUE
    /\ toolsError' = Null
    /\ toolFetches' = Append(toolFetches,
           [pc |-> "fetch", deadline |-> now + ToolsTimeoutMs])
    /\ requests' = requests \o
           << [url |-> BACKEND_URL \o "/tools", method |-> "GET"],
              [url |-> BACKEND_URL \o "/tools", method |-> "GET"] >>
    /\ UNCHANGED availableTools

\* the synchronous part, lines 134-145: up to the await of fetch
fetchAvailableTools ==
    /\ toolsLoading' = TRUE
    /\ toolsError' = Null
    /\ toolFetches' = Append(toolFetches,
           [pc |-> "fetch", deadline |-> now + ToolsTimeoutMs])
    /\ requests' = Append(requests,
           [url |-> BACKEND_URL \o "/tools", method |-> "GET"])
    /\ UNCHANGED availableTools

\* the effect of lines 178-180, run once after the first render
Mount ==
    /\ ~mounted
    /\ mounted' = TRUE
    /\ fetchAvailableTools
    /\ UNCHANGED <<hostname, chatVars, now, events>>

\* the Refresh Tools button, lines 434-440
RefreshTools ==
    /\ mounted
    /\ events < MaxEvents
    /\ events' = events + 1
    /\ fetchAvailableTools
    /\ UNCHANGED <<pageVars, chatVars, now>>

\* A near miss of lines 158-174, which C13 must tell from them: the error is
\* recorded and the list is left as it was.
ToolsCatchKeepingList(k, error) ==
    /\ toolsError' = Str(error.message)
    /\ availableTools' = availableTools
    /\ toolsLoading' = FALSE
    /\ toolFetches' = Finish(k)

\* the catch block and the finally block, lines 158-174
ToolsCatch(k, error) ==
    /\ toolsError' = Str(error.message)
    /\ availableTools' = FallbackTools
    /\ toolsLoading' = FALSE
    /\ toolFetches' = Finish(k)

\* fetch resolved with a response: lines 147-151
ToolsResponse(k, status) ==
    /\ k \in Pending
    /\ toolFetches[k].pc = "fetch"
    /\ IF Ok(status)
       THEN /\ toolFetches' = [toolFetches EXCEPT ![k].pc = "json"]
            /\ UNCHANGED <<availableTools, toolsLoading, toolsError>>
       ELSE ToolsCatch(k, Err("Error",
                "HTTP error! status: " \o ToString(status)))
    /\ UNCHANGED <<pageVars, chatVars, now, events, requests>>

\* fetch rejected because the request failed
ToolsFetchRejected(k, error) ==
    /\ k \in Pending
    /\ toolFetches[k].pc = "fetch"
    /\ ToolsCatch(k, error)
    /\ UNCHANGED <<pageVars, chatVars, now, events, requests>>

\* line 153: data.tools && Array.isArray(data.tools)
HasToolsArray(fields) ==
    "tools" \in DOMAIN fields /\ fields.tools.kind = "array"

\* A near miss of lines 151-157, which C12 must tell from them: the tools of
\* the body are added to the list instead of replacing it.
ToolsJsonAppending(k, data) ==
    /\ k \in Pending
    /\ toolFetches[k].pc = "json"
    /\ IF data.kind = "null"
       THEN ToolsCatch(k, Err("TypeError",
                "Cannot read properties of null (reading 'tools')"))
       ELSE IF HasToolsArray(data.fields)
       THEN /\ availableTools' = availableTools \o data.fields.tools.items
            /\ toolsLoading' = FALSE
            /\ toolFetches' = Finish(k)
            /\ UNCHANGED toolsError
       ELSE ToolsCatch(k, Err("Error", "Invalid tools data format"))
    /\ UNCHANGED <<pageVars, chatVars, now, events, requests>>

\* response.json() resolved: lines 151-157, then finally
ToolsJson(k, data) ==
    /\ k \in Pending
    /\ toolFetches[k].pc = "json"
    /\ IF data.kind = "null"
       THEN ToolsCatch(k, Err("TypeError",
                "Cannot read properties of null (reading 'tools')"))
       ELSE IF HasToolsArray(data.fields)
       THEN /\ availableTools' = data.fields.tools.items
            /\ toolsLoading' = FALSE
            /\ toolFetches' = Finish(k)
            /\ UNCHANGED toolsError
       ELSE ToolsCatch(k, Err("Error", "Invalid tools data format"))
    /\ UNCHANGED <<pageVars, chatVars, now, events, requests>>

\* response.json() rejected: the body is not JSON
ToolsJsonRejected(k) ==
    /\ k \in Pending
    /\ toolFetches[k].pc = "json"
    /\ ToolsCatch(k, JsonSyntaxError)
    /\ UNCHANGED <<pageVars, chatVars, now, events, requests>>

\* the signal of line 144 fires: the fetch, or the reading of its body,
\* rejects
ToolsTimeout(k) ==
    /\ k \in Pending
    /\ now >= toolFetches[k].deadline
    /\ ToolsCatch(k, TimeoutError)
    /\ UNCHANGED <<pageVars, chatVars, now, events, requests>>

----------------------------------------------------------------------------
(* The clock *)

\* time passes: a millisecond, or as long as the longer of the two timeouts
Tick(d) ==
    /\ events < MaxEvents
    /\ events' = events + 1
    /\ now' = now + d
    /\ UNCHANGED <<pageVars, chatVars, toolVars, requests>>

TickSteps == {1, ChatTimeoutMs}

\* time passes until a timer of a chat request is due
Elapse ==
    /\ \E t \in timers : now < t.deadline /\ now' = t.deadline
    /\ UNCHANGED <<pageVars, chatVars, toolVars, requests, events>>

----------------------------------------------------------------------------
(* The component *)

\* the page as first rendered on host, at time StartTime
InitOn(host) ==
    /\ hostname = host
    /\ mounted = FALSE
    /\ now = StartTime
    /\ events = 0
    /\ messages = InitialMessages(StartTime)
    /\ inputValue = ""
    /\ isLoading = FALSE
    /\ availableTools = <<>>
    /\ toolsLoading = TRUE
    /\ toolsError = Null
    /\ pc = "idle"
    /\ sendSeq = 0
    /\ timers = {}
    /\ aborted = {}
    /\ toolFetches = <<>>
    /\ requests = <<>>
    /\ settled = <<>>

Init == InitOn("localhost")

\* the steps of the chat send when the user types one of inputs and the
\* /chat endpoint answers with one of statuses, one of bodies, or fails
ChatStep(inputs, statuses, fetchErrors, bodies, bodyErrors) ==
    \/ \E v \in inputs : onChange(v)
    \/ handleSubmit
    \/ \E st \in statuses : ChatResponse(st)
    \/ \E e \in fetchErrors : ChatFetchRejected(e)
    \/ \E d \in bodies : ChatJson(d)
    \/ \E e \in bodyErrors : ChatJsonRejected(e)
    \/ \E t \in timers : ChatTimerFires(t)

\* the steps of the tools fetches when the /tools endpoint answers with one
\* of statuses, one of bodies, or fails
ToolsStep(statuses, bodies) ==
    \/ RefreshTools
    \/ \E k \in DOMAIN toolFetches, st \in statuses : ToolsResponse(k, st)
    \/ \E k \in DOMAIN toolFetches : ToolsFetchRejected(k, FailedToFetch)
    \/ \E k \in DOMAIN toolFetches, d \in bodies : ToolsJson(k, d)
    \/ \E k \in DOMAIN toolFetches : ToolsJsonRejected(k)
    \/ \E k \in DOMAIN toolFetches : ToolsTimeout(k)

\* Every interleaving of sends, tools fetches and clock advances, with one
\* answer of each kind: the reply of the test mock, a server error, a failed
\* connection, a body that is not JSON, a timeout, and no answer at all.
Next ==
    \/ Mount
    \/ ChatStep({"  ", " scrape it\n"}, {200, 500}, {FailedToFetch},
                {MockChatBody}, {JsonSyntaxError})
    \/ ToolsStep({200, 500}, {MockToolsBody, Obj(NoFields)})
    \/ \E d \in TickSteps : Tick(d)

Spec == Init /\ [][Next]_vars

\* Sends alone, with every status, failure and body of the environment, while
\* the tools fetch of the mount effect stays unanswered.
ReplyNext ==
    \/ Mount
    \/ ChatStep({"  ", "Hello AI!"}, ChatStatuses, NetworkErrors, ChatBodies,
                {JsonSyntaxError})
    \/ Tick(ChatTimeoutMs)

ReplySpec == Init /\ [][ReplyNext]_vars

\* Tools fetches with every status and body of the environment, beside sends
\* with one answer of each kind.
ToolsNext ==
    \/ Mount
    \/ ChatStep({" scrape it\n"}, {200, 500}, {FailedToFetch}, {MockChatBody},
                {JsonSyntaxError})
    \/ ToolsStep(ToolsStatuses, ToolsBodies \cup {Null})
    \/ Tick(ChatTimeoutMs)

ToolsSpec == Init /\ [][ToolsNext]_vars

\* Sends answered with the reply texts that exercise formatAIResponse.
FormatNext ==
    \/ Mount
    \/ ChatStep({"Hello AI!"}, {200}, {FailedToFetch}, FormatBodies,
                {JsonSyntaxError})
    \/ Tick(ChatTimeoutMs)

FormatSpec == Init /\ [][FormatNext]_vars

\* The page with replies whose lines are of every kind the renderer tells
\* apart.
RenderNext ==
    \/ Mount
    \/ ChatStep({"Hello AI!"}, {200}, {FailedToFetch}, RenderBodies,
                {JsonSyntaxError})
    \/ Tick(ChatTimeoutMs)

RenderSpec == Init /\ [][RenderNext]_vars

\* The page served from any of the hosts.
InitAnywhere == \E host \in Hostnames : InitOn(host)

HostSpec == InitAnywhere /\ [][ToolsNext]_vars

\* Sends under a fair clock and fair timers: time keeps passing while a timer
\* is armed, and the callback of a due timer runs.  Nothing is assumed of the
\* backend: a response, a body or a failure may never come.
FairNext ==
    \/ Mount
    \/ ChatStep({" scrape it\n"}, {200, 500}, {FailedToFetch}, {MockChatBody},
                {JsonSyntaxError})
    \/ Elapse

FairSpec ==
    /\ Init
    /\ [][FairNext]_vars
    /\ WF_vars(Elapse)
    /\ WF_vars(\E t \in timers : ChatTimerFires(t))

----------------------------------------------------------------------------
(* Properties of the chat send.  They read the log, the requests issued and
   the way each request ended. *)

\* the POST requests to /chat issued so far, in order: one per accepted send
ChatPosts == SelectSeq(requests, LAMBDA r : r.method = "POST")

\* the sends whose request has been issued and has not ended
ChatOutstanding == Len(ChatPosts) - Len(settled)

\* the positions of the user messages of the log
UserPositions == {i \in DOMAIN messages : messages[i].type = "user"}

\* C1: every accepted send appends exactly one user message, at once, and
\* exactly one bot message when its request has ended, however it ended: the
\* log holds the greeting, one message per send accepted and one per send
\* ended, the messages of the k-th send stand at 2k and 2k+1, the first the
\* user's text that was posted and the second a bot message.
C1_TwoMessagesPerSend ==
    /\ Len(settled) <= Len(ChatPosts)
    /\ Len(messages) = 1 + Len(ChatPosts) + Len(settled)
    /\ \A k \in 1..Len(ChatPosts) :
          /\ messages[2 * k].type = "user"
          /\ messages[2 * k].content = ChatPosts[k].body.message
    /\ \A k \in 1..Len(settled) : messages[2 * k + 1].type = "bot"

\* a send that timed out, then a send that was answered: five messages
C1_Witness ==
    /\ Len(settled) = 2
    /\ settled[1].by = "abort"
    /\ settled[2].by = "body"
    /\ Len(messages) = 5
    /\ pc = "idle"

\* C2: a submit while the input, trimmed, is empty, or while a send is in
\* flight, changes neither the log, the input, the loading flag nor the
\* requests issued.
C2_RejectedSubmitIsNoOp ==
    [][ ( /\ handleSubmit
          /\ \/ \A i \in 1..Len(inputValue) : Ch(inputValue, i) \in WhiteSpace
             \/ pc # "idle" )
        => UNCHANGED <<messages, inputValue, isLoading, requests>> ]_vars

\* after a send, the form can be submitted with nothing but blanks typed
C2_Witness ==
    /\ inputValue = "  "
    /\ pc = "idle"
    /\ Len(settled) >= 1
    /\ ENABLED handleSubmit

\* C3: at most one chat POST is outstanding, and at most one user message
\* waits for its reply.
C3_OneSendAtATime ==
    /\ ChatOutstanding \in {0, 1}
    /\ Cardinality(UserPositions) - Len(settled) \in {0, 1}

\* the next message is typed and can be submitted while the request of the
\* first is pending
C3_Witness ==
    /\ pc = "fetch"
    /\ ChatOutstanding = 1
    /\ Trim(inputValue) # ""
    /\ ENABLED handleSubmit

\* C4: under a fair clock and fair timers, whatever the backend does, the
\* loading flag of an accepted send is eventually cleared with its bot
\* message appended.
C4_EverySendCompletes ==
    \A k \in 1..MaxEvents :
        (Len(ChatPosts) = k) ~> (Len(settled) = k /\ ~isLoading)

\* the headers came, the timer is cleared and the body is awaited
C4_BodyAwaitedWithoutTimer ==
    /\ pc = "json"
    /\ isLoading
    /\ \A t \in timers : t.controller # sendSeq

\* C5: the loading flag is true while a chat request is outstanding and
\* false when no send is in progress.
C5_LoadingWhileInFlight ==
    /\ ChatOutstanding > 0 => isLoading
    /\ pc # "idle" => isLoading
    /\ (pc = "idle" \/ ChatOutstanding = 0) => ~isLoading

\* a first send failed and cleared the flag, the body of a second is awaited
C5_Witness ==
    /\ Len(settled) = 1
    /\ settled[1].by \in {"fetch error", "status"}
    /\ pc = "json"
    /\ isLoading

\* the category of a failed request
Category(outcome) ==
    IF outcome.by = "abort" THEN "timeout"
    ELSE IF outcome.by = "fetch error" THEN "network-failure"
    ELSE IF outcome.by = "status" /\ outcome.status = 503 THEN "service-starting"
    ELSE IF outcome.by = "status" /\ outcome.status >= 500 THEN "server-error"
    ELSE IF outcome.by = "status" /\ outcome.status = 404 THEN "not-found"
    ELSE "generic"

\* the sends that ended in a failure
Failed ==
    {k \in 1..Len(settled) :
        \/ settled[k].by \in {"abort", "fetch error", "status", "body error"}
        \/ settled[k].by = "body" /\ settled[k].data.kind = "null"}

\* C6: the bot messages of two failures of different categories differ; a 503
\* gives the service-starting message and not the server-error message; a
\* 500 gives the server-error message, which is neither the timeout message
\* nor the network message.
C6_CategoriesHaveTheirOwnMessage ==
    /\ \A j, k \in Failed :
          Category(settled[j]) # Category(settled[k])
              => messages[2 * j + 1].content # messages[2 * k + 1].content
    /\ \A k \in Failed :
          LET content == messages[2 * k + 1].content
          IN  /\ Category(settled[k]) = "service-starting"
                    => /\ Includes(content, "The AI service is starting up")
                       /\ ~Includes(content, "Server error")
              /\ Category(settled[k]) = "server-error"
                    => /\ Includes(content, "Server error")
                       /\ ~Includes(content, "timed out")
                       /\ ~Includes(content, "Network connection issue")

\* a 503 and then a 500 in one conversation
C6_Witness ==
    /\ Len(settled) = 2
    /\ settled[1] = [by |-> "status", status |-> 503]
    /\ settled[2] = [by |-> "status", status |-> 500]
    /\ messages[3].content # messages[5].content

\* C7: a request still pending when its timer fires is aborted and answered
\* with the timed-out message, and only the sends ended by their timer carry
\* that message: the timer of a pending request is armed, no request is
\* pending once its timer has fired, and the timed-out message stands exactly
\* at the sends that their timer ended.
C7_TimedOutIffTimerFired ==
    /\ pc = "fetch" => \E t \in timers : t.controller = sendSeq
    /\ sendSeq \in aborted => pc = "idle"
    /\ \A k \in 1..Len(settled) :
          /\ settled[k].by = "abort"
                <=> Includes(messages[2 * k + 1].content, "Request timed out")
          /\ settled[k].by = "abort" => k \in aborted

\* the connection of a first send failed and left its timer armed; a second
\* send timed out; both timers have fired, and only the second send carries
\* the timed-out message
C7_Witness ==
    /\ Len(settled) = 2
    /\ settled[1].by = "fetch error"
    /\ settled[2].by = "abort"
    /\ aborted = {1, 2}

\* the parsed bodies of the sends that a 2xx response with a JSON object
\* ended
Answered ==
    {k \in 1..Len(settled) :
        settled[k].by = "body" /\ settled[k].data.kind = "object"}

\* formatAIResponse(text), read from the table where the table has it
FormatOf(text) ==
    IF text \in DOMAIN Formatted THEN Formatted[text] ELSE formatAIResponse(text)

\* the names of the tools a body reports, in the order of the body
ReportedTools(fields) ==
    IF "tool_calls" \in DOMAIN fields
    THEN [i \in 1..Len(fields.tool_calls) |-> fields.tool_calls[i].name]
    ELSE <<>>

\* C8, as amended: the bot message of a successful response carries
\* formatAIResponse of the reply text, or of the words "(No direct textual
\* response)" when the body has no reply text or an empty one, and its
\* toolsUsed is the names of the tools the body reports, in that order.
C8_FormattedReplyOrPlaceholder ==
    \A k \in Answered :
        LET fields == settled[k].data.fields
            text == IF "ai_message" \in DOMAIN fields /\ fields.ai_message # ""
                    THEN fields.ai_message
                    ELSE "(No direct textual response)"
        IN  /\ messages[2 * k + 1].content = FormatOf(text)
            /\ messages[2 * k + 1].toolsUsed = ReportedTools(fields)

\* C8, as stated: the bot message of a successful response carries
\* formatAIResponse of the reply text of the body.
C8_ContentIsFormattedReplyText ==
    \A k \in Answered :
        LET fields == settled[k].data.fields
        IN  "ai_message" \in DOMAIN fields
                => messages[2 * k + 1].content = FormatOf(fields.ai_message)

\* a reply that the formatter turns into a list, and a reply that names a
\* tool twice
C8_Witness ==
    /\ Len(settled) = 2
    /\ settled[1].by = "body"
    /\ settled[1].data.kind = "object"
    /\ "ai_message" \in DOMAIN settled[1].data.fields
    /\ settled[1].data.fields.ai_message = LongListReply
    /\ messages[3].content # LongListReply
    /\ settled[2].by = "body"
    /\ "toolsUsed" \in DOMAIN messages[5]
    /\ messages[5].toolsUsed =
           <<"firecrawl_scrape", "firecrawl_search", "firecrawl_scrape">>

\* C9: the body of the k-th POST carries the content of the user message the
\* send appended, and as history the log before that message, each message
\* reduced to its type and content.
C9_RequestCarriesMessageAndHistory ==
    \A k \in 1..Len(ChatPosts) :
        /\ 2 * k <= Len(messages)
        /\ DOMAIN ChatPosts[k].body = {"message", "history"}
        /\ ChatPosts[k].body.message = messages[2 * k].content
        /\ ChatPosts[k].body.history =
               [i \in 1..(2 * k - 1) |->
                   [type |-> messages[i].type, content |-> messages[i].content]]

\* the second POST carries the greeting, the first text and the error message
\* that answered it, and the text as typed, with its blanks
C9_Witness ==
    /\ Len(ChatPosts) = 2
    /\ ChatPosts[2].body.message = " scrape it\n"
    /\ Len(ChatPosts[2].body.history) = 3
    /\ ChatPosts[2].body.history[3].type = "bot"
    /\ StartsWith(ChatPosts[2].body.history[3].content, ConnectionErrorHeader)

\* C10: the log only grows at its end: no step removes, reorders or changes
\* a message.
C10_LogIsAppendOnly == [][IsPrefix(messages, messages')]_vars

\* two sends have ended and the tools were fetched again meanwhile
C10_Witness ==
    /\ Len(messages) = 5
    /\ Len(toolFetches) = 2
    /\ messages[1].content = WelcomeText

\* C11: no two messages of the log have the same id.
C11_IdsAreUnique ==
    \A i, j \in DOMAIN messages : i # j => messages[i].id # messages[j].id

\* a send is submitted one millisecond after the reply to the send before it
\* was appended: the reply and the new user message have the same id
C11_ReplyAndNextSendShareAnId ==
    /\ Len(messages) >= 4
    /\ messages[3].type = "bot"
    /\ messages[4].type = "user"
    /\ messages[4].timestamp = messages[3].timestamp + 1
    /\ messages[4].id = messages[3].id

----------------------------------------------------------------------------
(* Properties of the tools fetch *)

\* the bodies a /tools response can carry in ToolsSpec
ToolsData == ToolsBodies \cup {Null}

\* the body is an object whose tools field is an array
CarriesToolsArray(data) ==
    /\ data.kind = "object"
    /\ "tools" \in DOMAIN data.fields
    /\ data.fields.tools.kind = "array"

\* C12: the step in which a tools fetch succeeds (a 2xx response whose body
\* has an array as tools) makes the tool list exactly the array of the body.
C12_SuccessReplacesToolList ==
    [][ \A k \in DOMAIN toolFetches, d \in ToolsData :
            (ToolsJson(k, d) /\ CarriesToolsArray(d))
                => availableTools' = d.fields.tools.items ]_vars

\* the mount fetch and a refresh have ended, the refresh with the three
\* tools of the test, and they are the list
C12_Witness ==
    /\ Len(toolFetches) = 2
    /\ Pending = {}
    /\ toolsError = Null
    /\ ~toolsLoading
    /\ availableTools =
           <<"firecrawl_scrape", "firecrawl_search", "firecrawl_extract">>

\* the step in which tools fetch k fails: the connection fails, the signal
\* times out, the status is not 2xx, or the body is not JSON or has no array
\* as tools
ToolsFetchFails(k) ==
    \/ ToolsFetchRejected(k, FailedToFetch)
    \/ ToolsTimeout(k)
    \/ \E st \in ToolsStatuses : (st < 200 \/ st > 299) /\ ToolsResponse(k, st)
    \/ ToolsJsonRejected(k)
    \/ \E d \in ToolsData : ~CarriesToolsArray(d) /\ ToolsJson(k, d)

\* a send that passes the guard can be submitted
SendAccepted == handleSubmit /\ Len(messages') = Len(messages) + 1

\* C13: the step in which a tools fetch fails sets the error state, makes the
\* tool list the eight fallback tools and leaves the log, the chat loading
\* flag and the input as they were; and with the error state set a send is
\* accepted as without it.
C13_FailureInstallsFallback ==
    /\ [][ \A k \in DOMAIN toolFetches :
              ToolsFetchFails(k)
                  => /\ toolsError' # Null
                     /\ Len(availableTools') = 8
                     /\ availableTools' = FallbackTools
                     /\ UNCHANGED <<messages, isLoading, inputValue>> ]_vars
    /\ []( ( /\ mounted
             /\ toolsError # Null
             /\ ~isLoading
             /\ Trim(inputValue) # ""
             /\ events < MaxEvents )
           => ENABLED SendAccepted )

\* the tools fetch timed out, and a send submitted after that was accepted
\* and answered
C13_Witness ==
    /\ toolsError = Str("The operation timed out.")
    /\ availableTools = FallbackTools
    /\ Len(settled) = 1
    /\ messages[2].timestamp >= StartTime + ToolsTimeoutMs

\* C14: the tools loading flag is true in every state in which a GET /tools
\* request is outstanding.
C14_LoadingWhileToolsFetchOutstanding == Pending # {} => toolsLoading

\* a refresh was started while the mount fetch was in flight; the mount
\* fetch has ended and cleared the flag, the fetch of the refresh is pending
C14_FlagClearedUnderPendingRefresh ==
    /\ Len(toolFetches) = 2
    /\ toolFetches[1].pc = "done"
    /\ toolFetches[2].pc = "fetch"
    /\ ~toolsLoading

\* C15: a step of a tools fetch (toolFetches changes) leaves the log, the
\* chat loading flag and the input as they were; a step of a chat send (its
\* position, its count, its outcomes or its timers change) leaves the tool
\* list, the tools loading flag and the tools error state as they were; a
\* tools fetch can be started whatever the state of the chat send, and a send
\* is accepted whatever the state of the tools fetches.
C15_ToolsAndChatAreIndependent ==
    /\ [][ /\ toolFetches' # toolFetches
                => UNCHANGED <<messages, isLoading, inputValue>>
           /\ ( \/ pc' # pc
                \/ sendSeq' # sendSeq
                \/ settled' # settled
                \/ timers' # timers
                \/ aborted' # aborted )
                => UNCHANGED <<availableTools, toolsLoading, toolsError>> ]_vars
    /\ []( (mounted /\ events < MaxEvents) => ENABLED RefreshTools )
    /\ []( ( /\ mounted
             /\ ~isLoading
             /\ Trim(inputValue) # ""
             /\ events < MaxEvents )
           => ENABLED SendAccepted )

\* a POST /chat and two GET /tools are outstanding at the same time
C15_Witness ==
    /\ pc = "fetch"
    /\ isLoading
    /\ ChatOutstanding = 1
    /\ Cardinality(Pending) = 2
    /\ toolsLoading

\* the GET requests to /tools issued so far, in order
ToolsGets == SelectSeq(requests, LAMBDA r : r.method = "GET")

\* C16: every accepted send has issued exactly one POST /chat and every call
\* of fetchAvailableTools exactly one GET /tools, whatever became of them;
\* and a request is issued only by the step of the mount effect, of a press
\* of Refresh Tools or of a submit, one request per step.
C16_NoRequestIsRetried ==
    /\ []( /\ Len(ChatPosts) = Cardinality(UserPositions)
           /\ Len(ToolsGets) = Len(toolFetches)
           /\ Len(requests) = Len(ChatPosts) + Len(ToolsGets) )
    /\ [][ requests' # requests
              => /\ Mount \/ RefreshTools \/ handleSubmit
                 /\ Len(requests') = Len(requests) + 1
                 /\ SubSeq(requests', 1, Len(requests)) = requests ]_vars

\* the mount fetch failed, a send failed, three minutes have passed, and the
\* two requests are all that was issued
C16_Witness ==
    /\ Len(toolFetches) = 1
    /\ toolFetches[1].pc = "done"
    /\ toolsError # Null
    /\ Len(settled) = 1
    /\ settled[1].by \in {"fetch error", "status"}
    /\ now >= StartTime + ChatTimeoutMs
    /\ Len(requests) = 2

----------------------------------------------------------------------------
(* Properties of the page *)

\* the base URL the policy gives a hostname
PolicyURL(host) ==
    IF host = "localhost"
    THEN "http://localhost:5000"
    ELSE "https://simple-agent-backend.onrender.com"

\* C17: on hostname localhost the status label is "Local" and the base URL
\* the local one; on every other hostname the label is "Online" and the base
\* URL the production one; every request goes to that base URL.
C17_LabelAndBaseURLFollowHostname ==
    /\ StatusLabel(hostname) = IF hostname = "localhost" THEN "Local" ELSE "Online"
    /\ BACKEND_URL = PolicyURL(hostname)
    /\ \A i \in DOMAIN requests : StartsWith(requests[i].url, PolicyURL(hostname))

\* the page is served from 127.0.0.1: the label reads "Online" and the chat
\* request went to the local backend
C17_OnlineLabelWithLocalBackend ==
    /\ hostname = "127.0.0.1"
    /\ StatusLabel(hostname) = "Online"
    /\ \E i \in DOMAIN requests :
          /\ requests[i].method = "POST"
          /\ requests[i].url = "http://localhost:5000/chat"

----------------------------------------------------------------------------
(* Properties of formatAIResponse, read off the bot message that
   handleSubmit appends for a reply text *)

\* the sends answered with a reply text, and the text
RepliedWithText ==
    {k \in Answered : "ai_message" \in DOMAIN settled[k].data.fields}
ReplyText(k) == settled[k].data.fields.ai_message

\* the reply texts that hold a paragraph break, a bold marker or a bullet
\* marker
MarkedInputs ==
    {text \in FormatInputs :
        \/ Includes(text, "\n\n")
        \/ Includes(text, "**")
        \/ Includes(text, BulletMarker)}

SentenceSegments(text) ==
    Cardinality({i \in DOMAIN SplitSentences(text) : SplitSentences(text)[i] # ""})

\* the reply texts of fewer than 300 characters or of at most 3 sentence
\* segments
ShortOrFewInputs ==
    {text \in FormatInputs : Len(text) < 300 \/ SentenceSegments(text) <= 3}

\* C19: a reply text of fewer than 300 characters, or of at most 3 non-empty
\* sentence segments, is shown as it is, whatever names it holds.
C19_ShortOrFewSentencesIsUnchanged ==
    \A k \in RepliedWithText :
        ReplyText(k) \in ShortOrFewInputs
            => messages[2 * k + 1].content = ReplyText(k)

\* 299 characters of a list of sites were shown as they are, 301 characters
\* of it were rewritten, and a long text of 3 sentences with 4 sites was
\* shown as it is
C19_Witness ==
    /\ Len(settled) = 3
    /\ RepliedWithText = {1, 2, 3}
    /\ ReplyText(1) = SubSeq(LongListReply, 1, 299)
    /\ messages[3].content = ReplyText(1)
    /\ ReplyText(2) = SubSeq(LongListReply, 1, 301)
    /\ messages[5].content # ReplyText(2)
    /\ ReplyText(3) = LongThreeSentenceReply
    /\ Len(ReplyText(3)) > 300
    /\ messages[7].content = ReplyText(3)

----------------------------------------------------------------------------
(* The error state of the tools fetch against the tool list *)

\* the tool lists a successful fetch can return
ReturnedLists ==
    {d.fields.tools.items : d \in {b \in ToolsData : CarriesToolsArray(b)}}

\* C20: when no tools fetch is in flight and one has ended, the error state
\* is set exactly when the list is the fallback list, and clear exactly when
\* the list is one that a successful fetch returned.
C20_ErrorStateMatchesToolList ==
    (Pending = {} /\ Len(toolFetches) >= 1)
        => /\ toolsError # Null <=> availableTools = FallbackTools
           /\ toolsError = Null <=> availableTools \in ReturnedLists

\* a refresh overlapped the mount fetch; one of the two failed, then the
\* other returned the three tools of the test: the list is the returned one
\* and the error state is still set
C20_ErrorShownOverReturnedList ==
    /\ Len(toolFetches) = 2
    /\ Pending = {}
    /\ ~toolsLoading
    /\ toolsError # Null
    /\ availableTools =
           <<"firecrawl_scrape", "firecrawl_search", "firecrawl_extract">>

----------------------------------------------------------------------------
(* The display of bot messages *)

\* the texts RenderSpec can show: the welcome text and the formatted replies
RenderedTexts == {WelcomeText} \cup {Formatted[text] : text \in RenderInputs}
RenderedLines == [text \in RenderedTexts |-> SplitLines(text)]
RenderedBlocks == [text \in RenderedTexts |-> MessageContent(text)]

LinesOf(text) ==
    IF text \in RenderedTexts THEN RenderedLines[text] ELSE SplitLines(text)

\* lines 516-517: what a bot message of the log is displayed as
Display(message) ==
    IF message.content \in RenderedTexts
    THEN RenderedBlocks[message.content]
    ELSE MessageContent(message.content)

BotMessages == {i \in DOMAIN messages : messages[i].type = "bot"}

\* the kind of block the precedence gives a line
KindByPrecedence(line) ==
    IF \A p \in 1..Len(line) : Ch(line, p) \in WhiteSpace
    THEN "spacer"
    ELSE IF StartsWith(Trim(line), BulletMarker)
    THEN "bullet"
    ELSE IF Includes(line, "**") /\ EndsWith(Trim(line), "**")
    THEN "heading"
    ELSE "paragraph"

\* the blocks are the lines, one for one, each of the kind the precedence
\* gives it
OneBlockPerLineByPrecedence ==
    \A i \in BotMessages :
        LET lines == LinesOf(messages[i].content)
            blocks == Display(messages[i])
        IN  /\ Len(blocks) = Len(lines)
            /\ \A k \in DOMAIN lines :
                   blocks[k].kind = KindByPrecedence(lines[k])

\* C21: every line of a bot message is displayed as exactly one block, of the
\* kind the precedence blank, bullet, heading, paragraph gives it, and a
\* heading shows its line with the bold markers stripped: no "**" is left in
\* it.
C21_EachLineIsOneBlockHeadingsUnmarked ==
    /\ OneBlockPerLineByPrecedence
    /\ \A i \in BotMessages :
           \A k \in DOMAIN Display(messages[i]) :
               Display(messages[i])[k].kind = "heading"
                   => ~Includes(Display(messages[i])[k].html, "**")

\* The reply "Note**" is in the log, one line, displayed as a heading that
\* still shows the marker.
C21_HeadingShowsItsMarker ==
    /\ Len(messages) = 3
    /\ messages[3].type = "bot"
    /\ messages[3].content = "Note**"
    /\ Display(messages[3]) = <<[kind |-> "heading", html |-> "Note**"]>>

----------------------------------------------------------------------------
(* The shape of the log *)

\* C22: the log starts with the welcome bot message and then alternates
\* user, bot, user, bot: no two neighbours have the same role; its last
\* message is a user message exactly when the loading flag is true and a bot
\* message exactly when it is false.
C22_LogAlternatesFromWelcome ==
    /\ Len(messages) >= 1
    /\ messages[1] = InitialMessages(StartTime)[1]
    /\ messages[1].type = "bot"
    /\ \A i \in 1..(Len(messages) - 1) : messages[i].type # messages[i + 1].type
    /\ \A i \in DOMAIN messages : messages[i].type \in {"user", "bot"}
    /\ messages[Len(messages)].type = "user" <=> isLoading
    /\ messages[Len(messages)].type = "bot" <=> ~isLoading

\* after a send that failed and a send that was answered, a third send is in
\* progress: six messages, the last the user's
C22_Witness ==
    /\ Len(messages) = 6
    /\ Len(settled) = 2
    /\ settled[1].by \in {"fetch error", "status", "body error", "abort"}
    /\ settled[2].by = "body"
    /\ messages[6].type = "user"
    /\ isLoading

----------------------------------------------------------------------------
(* Timers that outlive their send *)

\* a step in which the timer of a send that is over fires: the timer of an
\* earlier send, or of the last send when it has completed
StaleTimerFires ==
    \E t \in timers :
        /\ t \notin timers'
        /\ t.controller \in aborted' \ aborted
        /\ (t.controller # sendSeq \/ pc = "idle")

\* a step in which a send ends as aborted
SendAborted ==
    /\ Len(settled') = Len(settled) + 1
    /\ settled'[Len(settled')].by = "abort"

\* C23: a timer aborts only the request of the send that armed it. When the
\* timer of a send that is over fires, the log, the loading flag, the send in
\* progress and its outcome are left as they were: no request is aborted, no
\* bot message is added; and a send ends as aborted only in a step in which
\* its own timer fires.
C23_StaleTimerAbortsNothing ==
    [][/\ StaleTimerFires =>
            UNCHANGED <<messages, isLoading, pc, settled, requests, sendSeq>>
       /\ SendAborted =>
            /\ Len(settled') = sendSeq
            /\ sendSeq \in aborted' \ aborted]_vars

\* The first send failed before its timer was cleared, the second was made
\* before that timer was due, and the timer has fired while the request of
\* the second is pending: the second send is still in progress.
C23_Witness ==
    /\ Len(settled) = 1
    /\ settled[1].by = "fetch error"
    /\ sendSeq = 2
    /\ aborted = {1}
    /\ Len(messages) = 4
    /\ messages[4].id < messages[2].id + ChatTimeoutMs
    /\ pc = "fetch"
    /\ isLoading

====
